---- MODULE Spec2Model ----
(***************************************************************************)
(* Country Atlas Dashboard: the data aggregator (app/lib/countryData.ts)   *)
(* and the dashboard view's state and derivations                          *)
(* (app/components/CountryDashboard.tsx).                                  *)
(*                                                                         *)
(* Strings are modelled as sequences of one-character strings, so that     *)
(* toLowerCase, trim, includes, join, localeCompare and the default array  *)
(* sort are computed character by character.                               *)
(***************************************************************************)
EXTENDS Integers, Sequences, FiniteSets, TLC

(***************************************************************************)
(* Bounds of the model.                                                    *)
(***************************************************************************)
\* longest metadata body drawn for a stand-alone getCountries call
MaxMeta == 2
\* longest economic-indicator body drawn for a stand-alone getCountries call
MaxGdp == 2
\* longest metadata body drawn for a page load that goes on to the dashboard
MaxRows == 2
\* longest text typed into the search box
MaxTermLen == 2

(***************************************************************************)
(* Characters and strings.                                                 *)
(***************************************************************************)
LowerLetters ==
    << "a", "b", "c", "d", "e", "f", "g", "h", "i", "j", "k", "l", "m",
       "n", "o", "p", "q", "r", "s", "t", "u", "v", "w", "x", "y", "z" >>

UpperLetters ==
    << "A", "B", "C", "D", "E", "F", "G", "H", "I", "J", "K", "L", "M",
       "N", "O", "P", "Q", "R", "S", "T", "U", "V", "W", "X", "Y", "Z" >>

Digits == << "0", "1", "2", "3", "4", "5", "6", "7", "8", "9" >>

IsIn(c, table) == \E i \in 1..Len(table) : table[i] = c

IndexIn(c, table) == CHOOSE i \in 1..Len(table) : table[i] = c

IsWhitespace(c) == c = " "

Chars ==
    {LowerLetters[i] : i \in 1..Len(LowerLetters)}
        \cup {UpperLetters[i] : i \in 1..Len(UpperLetters)}
        \cup {Digits[i] : i \in 1..Len(Digits)}
        \cup {" ", ",", "U+2014"}

\* the lower-case form of each character
LowerCaseOf ==
    [c \in Chars |->
        IF IsIn(c, UpperLetters) THEN LowerLetters[IndexIn(c, UpperLetters)] ELSE c]

\* String.prototype.toLowerCase
toLowerCase(s) == [i \in 1..Len(s) |-> LowerCaseOf[s[i]]]

\* String.prototype.trim: leading and trailing whitespace removed
trim(s) ==
    LET solid == {i \in 1..Len(s) : ~IsWhitespace(s[i])}
    IN  IF solid = {} THEN <<>>
        ELSE LET first == CHOOSE i \in solid : \A j \in solid : i <= j
                 last  == CHOOSE i \in solid : \A j \in solid : j <= i
             IN  SubSeq(s, first, last)

\* String.prototype.includes: t occurs in s as a contiguous substring
includes(s, t) ==
    \E i \in 0..(Len(s) - Len(t)) : SubSeq(s, i + 1, i + Len(t)) = t

\* String(n) for a non-negative integer n: its decimal digits
RECURSIVE NumberToString(_)
NumberToString(n) ==
    IF n < 10 THEN << Digits[n + 1] >>
    ELSE NumberToString(n \div 10) \o << Digits[(n % 10) + 1] >>

\* UTF-16 code unit of a character, the key of the default Array.prototype.sort
CodeUnit ==
    [c \in Chars |->
        IF c = " " THEN 32
        ELSE IF c = "," THEN 44
        ELSE IF IsIn(c, Digits) THEN 47 + IndexIn(c, Digits)
        ELSE IF IsIn(c, UpperLetters) THEN 64 + IndexIn(c, UpperLetters)
        ELSE IF IsIn(c, LowerLetters) THEN 96 + IndexIn(c, LowerLetters)
        ELSE 8212]

\* Primary collation weight used by localeCompare: whitespace, then
\* punctuation (dash before comma), then digits, then letters without case.
PrimaryWeight ==
    [c \in Chars |->
        IF c = " " THEN 1
        ELSE IF c = "," THEN 3
        ELSE IF IsIn(c, Digits) THEN 9 + IndexIn(c, Digits)
        ELSE IF IsIn(c, UpperLetters) THEN 19 + IndexIn(c, UpperLetters)
        ELSE IF IsIn(c, LowerLetters) THEN 19 + IndexIn(c, LowerLetters)
        ELSE 2]

\* Case (tertiary) collation weight: lower case sorts before upper case.
CaseWeight == [c \in Chars |-> IF IsIn(c, UpperLetters) THEN 1 ELSE 0]

\* Lexicographic comparison of two sequences of integers: -1, 0 or 1.
CompareWeights(u, v) ==
    LET common == IF Len(u) < Len(v) THEN Len(u) ELSE Len(v)
        diff   == {i \in 1..common : u[i] # v[i]}
    IN  IF diff = {}
        THEN IF Len(u) < Len(v) THEN -1 ELSE IF Len(u) > Len(v) THEN 1 ELSE 0
        ELSE LET d == CHOOSE i \in diff : \A j \in diff : i <= j
             IN  IF u[d] < v[d] THEN -1 ELSE 1

\* String.prototype.localeCompare: -1, 0 or 1
localeCompare(s, t) ==
    LET p == CompareWeights([i \in 1..Len(s) |-> PrimaryWeight[s[i]]],
                            [i \in 1..Len(t) |-> PrimaryWeight[t[i]]])
    IN  IF p # 0 THEN p
        ELSE CompareWeights([i \in 1..Len(s) |-> CaseWeight[s[i]]],
                            [i \in 1..Len(t) |-> CaseWeight[t[i]]])

\* Comparison of the default Array.prototype.sort(): by UTF-16 code units.
CodeUnitCompare(s, t) ==
    CompareWeights([i \in 1..Len(s) |-> CodeUnit[s[i]]],
                   [i \in 1..Len(t) |-> CodeUnit[t[i]]])

\* Array.prototype.join over an array of strings
RECURSIVE join(_, _)
join(parts, sep) ==
    IF parts = <<>> THEN <<>>
    ELSE IF Len(parts) = 1 THEN parts[1]
    ELSE parts[1] \o sep \o join(Tail(parts), sep)

(***************************************************************************)
(* Values.  A nullable number is Null or Some(n).                          *)
(***************************************************************************)
Null == <<>>

Some(v) == << v >>

\* a string is falsy exactly when it is empty (or missing)
Truthy(s) == s # <<>>

Front(arr) == SubSeq(arr, 1, Len(arr) - 1)

Last(arr) == arr[Len(arr)]

RESTCOUNTRIES_URL == "https://restcountries.com/v3.1/all"

WORLD_BANK_URL == "https://api.worldbank.org/v2/country/all/indicator/NY.GDP.MKTP.CD"

\* the one-character string U+2014 (em dash), written here as one token
EmDash == << "U+2014" >>

Other == << "O", "t", "h", "e", "r" >>

All == << "A", "l", "l" >>

(***************************************************************************)
(* Upstream data the model draws from.                                     *)
(***************************************************************************)
\* type RestCountry; an optional field is a record with a `has` flag
RestCountry(name, cca2, cca3, capital, region, population, currencies) ==
    [name |-> name, cca2 |-> cca2, cca3 |-> cca3, capital |-> capital,
     region |-> region, population |-> population, currencies |-> currencies]

Absent == [has |-> FALSE, items |-> <<>>]

Present(items) == [has |-> TRUE, items |-> items]

\* type WorldBankEntry: country.id ("" when missing) and a nullable value
WorldBankEntry(id, value) == [id |-> id, value |-> value]

Alpha ==
    RestCountry(<<"A", "b">>, <<"A", "A">>, <<"A", "A", "A">>,
                Present(<< <<"A">> >>), <<"X">>, 2, Present(<< <<"E">> >>))

Beta ==
    RestCountry(<<"B", "a">>, <<"B", "B">>, <<"B", "B", "B">>,
                Absent, <<>>, 1, Absent)

\* an entry that repeats Alpha's cca3 and whose region is the text "All"
Gamma ==
    RestCountry(<<"B">>, <<"B", "B">>, <<"A", "A", "A">>,
                Present(<<>>), All, 3, Present(<<>>))

Delta ==
    RestCountry(<<"a", " ", "B">>, <<"C", "C">>, <<"C", "C", "C">>,
                Present(<< <<"B">>, <<"A">> >>), <<"X">>, 1,
                Present(<< <<"E">>, <<"D">> >>))

NoCca2 ==
    RestCountry(<<"A", "b">>, <<>>, <<"D", "D", "D">>,
                Absent, <<"X">>, 3, Absent)

NoCca3 ==
    RestCountry(<<"B", "a">>, <<"A", "A">>, <<>>,
                Absent, <<"X">>, 2, Absent)

MetaPool == {Alpha, Beta, Gamma, Delta, NoCca2, NoCca3}

PagePool == {Alpha, Beta, Gamma, Delta}

GdpPool ==
    {WorldBankEntry(<<"A", "A">>, Some(1)), WorldBankEntry(<<"A", "A">>, Some(2)),
     WorldBankEntry(<<"A", "A">>, Null),    WorldBankEntry(<<"B", "B">>, Some(2)),
     WorldBankEntry(<<"B", "B">>, Null),    WorldBankEntry(<<>>, Some(1))}

SeqsUpTo(pool, n) == UNION {[1..k -> pool] : k \in 0..n}

\* a response: its status flag and its parsed JSON body
Response(ok, body) == [ok |-> ok, body |-> body]

Pending == Response(FALSE, <<>>)

RestResponses(n, pool) == {Response(ok, b) : ok \in BOOLEAN, b \in SeqsUpTo(pool, n)}

\* the indicator body is [metadata, entries]; entries may fail to be an array
GdpBody(isArray, entries) == [isArray |-> isArray, entries |-> entries]

GdpResponses(n, pool) ==
    {Response(ok, GdpBody(TRUE, es)) : ok \in BOOLEAN, es \in SeqsUpTo(pool, n)}
        \cup {Response(TRUE, GdpBody(FALSE, <<>>))}

PageGdpResponses ==
    {Response(TRUE, GdpBody(TRUE, << WorldBankEntry(<<"A", "A">>, Some(2)),
                                     WorldBankEntry(<<"A", "A">>, Some(1)),
                                     WorldBankEntry(<<"B", "B">>, Some(1)) >>)),
     Response(FALSE, GdpBody(TRUE, <<>>))}

(***************************************************************************)
(* Data aggregator: app/lib/countryData.ts                                 *)
(***************************************************************************)
buildCurrencyLabel(currencies) ==
    IF ~currencies.has THEN EmDash
    ELSE join(currencies.items, << ",", " " >>)

EmptyMap == [k \in {} |-> 0]

MapSet(map, key, value) ==
    [k \in (DOMAIN map) \cup {key} |-> IF k = key THEN value ELSE map[k]]

\* pickLatestGdpFrom without the has() test: the last value per code wins
RECURSIVE pickLatestGdpLastWins(_, _, _)
pickLatestGdpLastWins(entries, i, gdpMap) ==
    IF i > Len(entries) THEN gdpMap
    ELSE LET entry == entries[i]
         IN  IF ~Truthy(entry.id) \/ entry.value = Null
             THEN pickLatestGdpLastWins(entries, i + 1, gdpMap)
             ELSE pickLatestGdpLastWins(entries, i + 1,
                                        MapSet(gdpMap, entry.id, entry.value[1]))

\* the loop of pickLatestGdp from entry i on, gdpMap being the map so far
RECURSIVE pickLatestGdpFrom(_, _, _)
pickLatestGdpFrom(entries, i, gdpMap) ==
    IF i > Len(entries) THEN gdpMap
    ELSE LET entry == entries[i]
         IN  IF ~Truthy(entry.id) \/ entry.value = Null
             THEN pickLatestGdpFrom(entries, i + 1, gdpMap)
             ELSE IF entry.id \notin DOMAIN gdpMap
             THEN pickLatestGdpFrom(entries, i + 1,
                                    MapSet(gdpMap, entry.id, entry.value[1]))
             ELSE pickLatestGdpFrom(entries, i + 1, gdpMap)

pickLatestGdp(entries) == pickLatestGdpFrom(entries, 1, EmptyMap)

\* the comparator of getCountries' final sort
ByPopulationAscending(a, b) == a.population - b.population

ByPopulationDescending(a, b) == b.population - a.population

(***************************************************************************)
(* Array.prototype.sort with a comparator: stable; computed as an          *)
(* insertion sort, which for a consistent comparator gives the one stable  *)
(* sorted order.  `ord` names the comparator in use.                       *)
(***************************************************************************)
ByPopulation == [by |-> "population"]

ByCodeUnit == [by |-> "codeUnit"]

ByView(key, direction) == [by |-> "view", sortKey |-> key, sortDirection |-> direction]

NullText == << "n", "u", "l", "l" >>

\* typeof value === "number" for the value of field `key`
IsNumber(key, value) ==
    IF key = "population" THEN TRUE
    ELSE IF key = "gdp" THEN value # Null
    ELSE FALSE

NumberOf(key, value) == IF key = "gdp" THEN value[1] ELSE value

\* String(value) for the value of field `key`
StringOf(key, value) ==
    IF key = "population" THEN NumberToString(value)
    ELSE IF key = "gdp"
    THEN IF value = Null THEN NullText ELSE NumberToString(value[1])
    ELSE value

\* the comparator of filteredCountries' sort
ViewCompare(key, direction, a, b) ==
    LET multiplier == IF direction = "asc" THEN 1 ELSE -1
        aValue == a[key]
        bValue == b[key]
    IN  IF IsNumber(key, aValue) /\ IsNumber(key, bValue)
        THEN (NumberOf(key, aValue) - NumberOf(key, bValue)) * multiplier
        ELSE localeCompare(StringOf(key, aValue), StringOf(key, bValue)) * multiplier

Compare(ord, a, b) ==
    IF ord.by = "population" THEN ByPopulationDescending(a, b)
    ELSE IF ord.by = "codeUnit" THEN CodeUnitCompare(a, b)
    ELSE ViewCompare(ord.sortKey, ord.sortDirection, a, b)

RECURSIVE SortedInsert(_, _, _)
SortedInsert(sorted, x, ord) ==
    IF sorted = <<>> THEN << x >>
    ELSE IF Compare(ord, Last(sorted), x) > 0
    THEN Append(SortedInsert(Front(sorted), x, ord), Last(sorted))
    ELSE Append(sorted, x)

RECURSIVE sort(_, _)
sort(arr, ord) ==
    IF arr = <<>> THEN <<>>
    ELSE SortedInsert(sort(Front(arr), ord), Last(arr), ord)

(***************************************************************************)
(* getCountries                                                            *)
(***************************************************************************)
HasBothCodes(country) == Truthy(country.cca2) /\ Truthy(country.cca3)

CountryRecord(country, gdpMap) ==
    [name       |-> country.name,
     cca2       |-> country.cca2,
     cca3       |-> country.cca3,
     capital    |-> IF country.capital.has /\ country.capital.items # <<>>
                    THEN country.capital.items[1] ELSE EmDash,
     region     |-> IF Truthy(country.region) THEN country.region ELSE Other,
     population |-> country.population,
     currencies |-> buildCurrencyLabel(country.currencies),
     gdp        |-> IF country.cca2 \in DOMAIN gdpMap
                    THEN Some(gdpMap[country.cca2]) ELSE Null]

\* gdpEntries: the second element of the indicator body when it is an array
GdpEntries(body) == IF body.isArray THEN body.entries ELSE <<>>

\* the records getCountries returns once both responses were ok
BuildRecords(restData, gdpMap) ==
    LET kept   == SelectSeq(restData, HasBothCodes)
        mapped == [i \in 1..Len(kept) |-> CountryRecord(kept[i], gdpMap)]
    IN  sort(mapped, ByPopulation)

Thrown(message) ==
    [kind |-> "throw", error |-> message, gdpMap |-> EmptyMap, value |-> <<>>]

Returned(gdpMap, records) ==
    [kind |-> "return", error |-> "", gdpMap |-> gdpMap, value |-> records]

\* getCountries without the test of the indicator response's status
getCountriesUncheckedGdp(rest, gdp) ==
    IF ~rest.ok THEN Thrown("Failed to load country metadata.")
    ELSE LET gdpMap == pickLatestGdp(GdpEntries(gdp.body))
         IN  Returned(gdpMap, BuildRecords(rest.body, gdpMap))

\* the outcome of getCountries given the two responses of its Promise.all
getCountries(rest, gdp) ==
    IF ~rest.ok THEN Thrown("Failed to load country metadata.")
    ELSE IF ~gdp.ok THEN Thrown("Failed to load GDP data.")
    ELSE LET gdpMap == pickLatestGdp(GdpEntries(gdp.body))
         IN  Returned(gdpMap, BuildRecords(rest.body, gdpMap))

(***************************************************************************)
(* Dashboard view: app/components/CountryDashboard.tsx                     *)
(***************************************************************************)
SortKeys == {"name", "population", "gdp", "capital", "currencies"}

\* the options of the sort select, as <<key, direction>>
SortOptions ==
    { <<"population", "desc">>, <<"population", "asc">>, <<"gdp", "desc">>,
      <<"gdp", "asc">>, <<"name", "asc">>, <<"name", "desc">> }

\* the first occurrences of arr's elements, in order (Array.from(new Set(arr)))
RECURSIVE Distinct(_)
Distinct(arr) ==
    IF arr = <<>> THEN <<>>
    ELSE LET rest == Distinct(Front(arr))
         IN  IF Last(arr) \in {arr[i] : i \in 1..(Len(arr) - 1)} THEN rest
             ELSE Append(rest, Last(arr))

\* the `regions` memo
computeRegions(records) ==
    LET regionSet == Distinct([i \in 1..Len(records) |-> records[i].region])
    IN  << All >> \o sort(regionSet, ByCodeUnit)

\* matchesSearch without lower-casing the name
matchesSearchCaseSensitive(country, term) ==
    includes(country.name, toLowerCase(trim(term)))

matchesSearch(country, term) ==
    includes(toLowerCase(country.name), toLowerCase(trim(term)))

matchesRegion(country, region) == region = All \/ country.region = region

\* computeVisible sorting the countries array itself before filtering it
computeVisibleInPlace(records, term, region, key, direction) ==
    LET Matches(country) == matchesSearch(country, term) /\ matchesRegion(country, region)
        sorted == sort(records, ByView(key, direction))
    IN  [source |-> sorted, visible |-> SelectSeq(sorted, Matches)]

\* the `filteredCountries` memo: `source` is the countries array after the
\* computation, `visible` the array the memo holds
computeVisible(records, term, region, key, direction) ==
    LET Matches(country) == matchesSearch(country, term) /\ matchesRegion(country, region)
        filtered == SelectSeq(records, Matches)
    IN  [source |-> records, visible |-> sort(filtered, ByView(key, direction))]

\* toggleSort resetting every newly chosen column to descending
toggleSortDefaultDescending(key, currentKey, currentDirection) ==
    IF currentKey = key
    THEN [sortKey |-> currentKey,
          sortDirection |-> IF currentDirection = "asc" THEN "desc" ELSE "asc"]
    ELSE [sortKey |-> key, sortDirection |-> "desc"]

\* toggleSort whose flip of the current column always lands on descending
toggleSortStuckDescending(key, currentKey, currentDirection) ==
    IF currentKey = key
    THEN [sortKey |-> currentKey, sortDirection |-> "desc"]
    ELSE [sortKey |-> key,
          sortDirection |-> IF key = "name" \/ key = "capital" THEN "asc" ELSE "desc"]

\* the state handleSort(key) leaves
toggleSort(key, currentKey, currentDirection) ==
    IF currentKey = key
    THEN [sortKey |-> currentKey,
          sortDirection |-> IF currentDirection = "asc" THEN "desc" ELSE "asc"]
    ELSE [sortKey |-> key,
          sortDirection |-> IF key = "name" \/ key = "capital" THEN "asc" ELSE "desc"]

TermAlphabet == {"A", " "}

Terms == SeqsUpTo(TermAlphabet, MaxTermLen)

(***************************************************************************)
(* State.                                                                  *)
(***************************************************************************)
VARIABLES
    page,              \* "loading"; "returned" or "thrown" once getCountries
                       \* has ended; then "ready" (dashboard rendered) or "error"
    restResponse,      \* getCountries' local: the metadata response
    gdpResponse,       \* getCountries' local: the indicator response
    fetches,           \* the URLs fetched so far, in order
    error,             \* the message of the Error thrown, "" if none
    gdpMap,            \* getCountries' local: the map pickLatestGdp built
    countries,         \* the record list passed to the dashboard
    selectedCountry,   \* Null or Some(record)
    searchTerm,
    regionFilter,
    sortKey,
    sortDirection,
    regions,           \* the regions memo
    filteredCountries  \* the filteredCountries memo

vars ==
    << page, restResponse, gdpResponse, fetches, error, gdpMap, countries,
       selectedCountry, searchTerm, regionFilter, sortKey, sortDirection,
       regions, filteredCountries >>

aggregatorVars == << page, restResponse, gdpResponse, fetches, error, gdpMap >>

Init ==
    /\ page = "loading"
    /\ restResponse = Pending
    /\ gdpResponse = Pending
    /\ fetches = <<>>
    /\ error = ""
    /\ gdpMap = EmptyMap
    /\ countries = <<>>
    /\ selectedCountry = Null
    /\ searchTerm = <<>>
    /\ regionFilter = All
    /\ sortKey = "population"
    /\ sortDirection = "desc"
    /\ regions = <<>>
    /\ filteredCountries = <<>>

\* the first render of CountryDashboard over `records`: both memos are computed
Mount(records, term, region, key, direction) ==
    \E memo \in {computeVisible(records, term, region, key, direction)} :
        /\ countries' = memo.source
        /\ filteredCountries' = memo.visible
        /\ regions' = computeRegions(memo.source)

\* a render after searchTerm, regionFilter, sortKey or sortDirection changed:
\* the filteredCountries memo is recomputed; the regions memo depends on the
\* countries prop alone and is kept
Render(term, region, key, direction) ==
    \E memo \in {computeVisible(countries, term, region, key, direction)} :
        /\ countries' = memo.source
        /\ filteredCountries' = memo.visible
        /\ regions' = regions

\* HomePage awaits getCountries(): the two fetches, then the throw or the
\* return; the returned list is HomePage's `countries`
CallGetCountries(restResponses, gdpResponses) ==
    /\ page = "loading"
    /\ \E rest \in restResponses, gdp \in gdpResponses :
         \E outcome \in {getCountries(rest, gdp)} :
             /\ restResponse' = rest
             /\ gdpResponse' = gdp
             /\ fetches' = fetches \o << RESTCOUNTRIES_URL, WORLD_BANK_URL >>
             /\ error' = outcome.error
             /\ gdpMap' = outcome.gdpMap
             /\ IF outcome.kind = "throw"
                THEN page' = "thrown" /\ countries' = countries
                ELSE page' = "returned" /\ countries' = outcome.value
    /\ UNCHANGED << selectedCountry, searchTerm, regionFilter, sortKey,
                    sortDirection, regions, filteredCountries >>

\* a page load whose result goes on to the dashboard
LoadPage == CallGetCountries(RestResponses(MaxRows, PagePool), PageGdpResponses)

\* a call of getCountries over the wider inputs
LoadAny ==
    CallGetCountries(RestResponses(MaxMeta, MetaPool), GdpResponses(MaxGdp, GdpPool))

\* HomePage goes on after the await: getCountries' locals are gone; on a
\* return the dashboard is rendered over `countries`, on a throw the page
\* fails with the error and renders no dashboard
ShowPage ==
    /\ page \in {"returned", "thrown"}
    /\ restResponse' = Pending
    /\ gdpResponse' = Pending
    /\ gdpMap' = EmptyMap
    /\ IF page = "thrown"
       THEN /\ page' = "error"
            /\ UNCHANGED << countries, regions, filteredCountries >>
       ELSE /\ page' = "ready"
            /\ Mount(countries, searchTerm, regionFilter, sortKey, sortDirection)
    /\ UNCHANGED << fetches, error, selectedCountry, searchTerm, regionFilter,
                    sortKey, sortDirection >>

\* onChange of the search input
SetSearchTerm ==
    /\ page = "ready"
    /\ \E term \in Terms :
         /\ searchTerm' = term
         /\ Render(term, regionFilter, sortKey, sortDirection)
    /\ UNCHANGED << aggregatorVars, selectedCountry, regionFilter, sortKey, sortDirection >>

\* onChange of the region select, whose options are the regions memo
SetRegionFilter ==
    /\ page = "ready"
    /\ \E i \in 1..Len(regions) :
         /\ regionFilter' = regions[i]
         /\ Render(searchTerm, regions[i], sortKey, sortDirection)
    /\ UNCHANGED << aggregatorVars, selectedCountry, searchTerm, sortKey, sortDirection >>

\* onChange of the sort select
SelectSortOption ==
    /\ page = "ready"
    /\ \E option \in SortOptions :
         /\ sortKey' = option[1]
         /\ sortDirection' = option[2]
         /\ Render(searchTerm, regionFilter, option[1], option[2])
    /\ UNCHANGED << aggregatorVars, selectedCountry, searchTerm, regionFilter >>

\* onClick of the column header of `key`
handleSort(key) ==
    /\ page = "ready"
    /\ LET next == toggleSort(key, sortKey, sortDirection)
       IN  /\ sortKey' = next.sortKey
           /\ sortDirection' = next.sortDirection
           /\ Render(searchTerm, regionFilter, next.sortKey, next.sortDirection)
    /\ UNCHANGED << aggregatorVars, selectedCountry, searchTerm, regionFilter >>

HeaderClick == \E key \in SortKeys : handleSort(key)

\* onClick of a table row; no memo depends on selectedCountry
SetSelectedCountry ==
    /\ page = "ready"
    /\ \E i \in 1..Len(filteredCountries) :
         selectedCountry' = Some(filteredCountries[i])
    /\ UNCHANGED << aggregatorVars, countries, regions, filteredCountries,
                    searchTerm, regionFilter, sortKey, sortDirection >>

Next ==
    \/ LoadPage
    \/ ShowPage
    \/ SetSearchTerm
    \/ SetRegionFilter
    \/ SelectSortOption
    \/ HeaderClick
    \/ SetSelectedCountry

Spec == Init /\ [][Next]_vars

NextAgg == LoadAny \/ ShowPage

SpecAgg == Init /\ [][NextAgg]_vars

(***************************************************************************)
(* Properties.                                                             *)
(***************************************************************************)
Elements(arr) == {arr[i] : i \in 1..Len(arr)}

Count(arr, x) == Cardinality({i \in 1..Len(arr) : arr[i] = x})

Least(S) == CHOOSE i \in S : \A j \in S : i <= j

\* C1: getCountries throws, and hands over no record list, whenever one of
\* the two responses is not ok; it returns a list only when both are ok; and
\* each of the two URLs is fetched exactly once (no retry).
GetCountriesAllOrNothing ==
    /\ page \in {"returned", "thrown"} =>
          /\ (page = "thrown") <=> (~restResponse.ok \/ ~gdpResponse.ok)
          /\ page = "thrown" => error # "" /\ countries = <<>>
          /\ page = "returned" => error = ""
    /\ page = "error" =>
          error # "" /\ countries = <<>> /\ filteredCountries = <<>> /\ regions = <<>>
    /\ page # "loading" => fetches = << RESTCOUNTRIES_URL, WORLD_BANK_URL >>

\* C1 witness: the metadata arrived with entries, the indicator fetch failed,
\* and nothing was returned.
GetCountriesGdpFailed ==
    /\ page = "thrown"
    /\ restResponse.ok /\ ~gdpResponse.ok
    /\ \E i \in 1..Len(restResponse.body) : HasBothCodes(restResponse.body[i])
    /\ error = "Failed to load GDP data."

\* C2: the map pickLatestGdp builds sends each code to the value of the first
\* entry, in source order, that has that code and a non-null value, and holds
\* no code without such an entry.
PickLatestGdpFirstWins ==
    page = "returned" =>
        LET entries == GdpEntries(gdpResponse.body)
            Hits(code) == {i \in 1..Len(entries) :
                              entries[i].id = code /\ entries[i].value # Null}
            codes == {entries[i].id : i \in 1..Len(entries)} \ {<<>>}
        IN  /\ DOMAIN gdpMap = {code \in codes : Hits(code) # {}}
            /\ \A code \in DOMAIN gdpMap :
                  gdpMap[code] = entries[Least(Hits(code))].value[1]

\* C2 witness: a code has two non-null entries, the later one larger, and
\* the map holds the earlier one.
PickLatestGdpKeptEarlier ==
    /\ page = "returned"
    /\ LET entries == GdpEntries(gdpResponse.body)
       IN  \E i, j \in 1..Len(entries) :
              /\ i < j
              /\ entries[i].id = entries[j].id /\ Truthy(entries[i].id)
              /\ entries[i].value # Null /\ entries[j].value # Null
              /\ entries[i].value[1] < entries[j].value[1]
              /\ gdpMap[entries[i].id] = entries[i].value[1]

\* C3: the list getCountries returns is in descending order of population.
CountriesSortedByPopulation ==
    page \in {"returned", "ready"} =>
        \A i \in 1..(Len(countries) - 1) :
            countries[i].population >= countries[i + 1].population

\* C3 witness: two kept entries arrived in ascending order of population and
\* were returned in descending order.
CountriesWereReordered ==
    /\ page = "returned"
    /\ Len(restResponse.body) = 2 /\ Len(countries) = 2
    /\ restResponse.body[1].population < restResponse.body[2].population
    /\ countries[1].population > countries[2].population

\* name contains term as a substring, letter case ignored
ContainsIgnoringCase(name, term) ==
    \E offset \in 0..(Len(name) - Len(term)) :
        \A k \in 1..Len(term) : LowerCaseOf[name[offset + k]] = LowerCaseOf[term[k]]

PassesRegion(record) == regionFilter = All \/ record.region = regionFilter

\* every record is visible as often as it occurs in countries when it
\* passes, and not at all when it does not
VisibleAreExactly(Passes(_)) ==
    \A r \in Elements(countries) \cup Elements(filteredCountries) :
        Count(filteredCountries, r) = IF Passes(r) THEN Count(countries, r) ELSE 0

\* C4 as stated: the visible records are exactly those whose name contains
\* searchTerm, case ignored, and whose region passes regionFilter.
VisibleMatchSearchTerm ==
    page = "ready" =>
        LET Passes(r) == ContainsIgnoringCase(r.name, searchTerm) /\ PassesRegion(r)
        IN  VisibleAreExactly(Passes)

\* C4 amended: the visible records are exactly those whose name contains
\* searchTerm with its leading and trailing whitespace removed, case ignored,
\* and whose region passes regionFilter.
VisibleMatchTrimmedSearchTerm ==
    page = "ready" =>
        LET Passes(r) == ContainsIgnoringCase(r.name, trim(searchTerm)) /\ PassesRegion(r)
        IN  VisibleAreExactly(Passes)

\* C4 witness: a term with outer whitespace and a region are in force, some
\* records are visible and some are filtered out, and a visible record's name
\* does not contain the term as typed.
VisibleUnderPaddedTerm ==
    /\ page = "ready"
    /\ trim(searchTerm) # searchTerm /\ trim(searchTerm) # <<>>
    /\ regionFilter # All
    /\ 0 < Len(filteredCountries) /\ Len(filteredCountries) < Len(countries)
    /\ \E i \in 1..Len(filteredCountries) :
          ~ContainsIgnoringCase(filteredCountries[i].name, searchTerm)

\* the number a field enters arithmetic as: an absent gdp is null, and
\* null - x is 0 - x
Amount(record, key) ==
    IF key = "population" THEN record.population
    ELSE IF record.gdp = Null THEN 0 ELSE record.gdp[1]

\* C5: under a numeric sort key (population or gdp) any two visible records
\* stand in arithmetic order of that field, times the direction multiplier,
\* also when some records have no gdp.
VisibleInArithmeticOrder ==
    (page = "ready" /\ sortKey \in {"population", "gdp"}) =>
        LET multiplier == IF sortDirection = "asc" THEN 1 ELSE -1
        IN  \A i, j \in 1..Len(filteredCountries) :
                i < j =>
                    (Amount(filteredCountries[i], sortKey)
                        - Amount(filteredCountries[j], sortKey)) * multiplier <= 0

\* C6: a header click on the current sort key keeps the key and flips the
\* direction; on another key it adopts the key with ascending for name and
\* capital and descending for population, gdp and currencies.
HandleSortContract ==
    [][\A key \in SortKeys :
          handleSort(key) =>
              IF key = sortKey
              THEN /\ sortKey' = sortKey
                   /\ sortDirection' # sortDirection
                   /\ sortDirection' \in {"asc", "desc"}
              ELSE /\ sortKey' = key
                   /\ sortDirection' = IF key \in {"name", "capital"} THEN "asc"
                                       ELSE "desc"]_vars

\* C6 witness: capital descending, which only a header click on capital
\* followed by a second one produces.
CapitalDescendingReached ==
    page = "ready" /\ sortKey = "capital" /\ sortDirection = "desc"

\* C7: regions starts with "All", has no duplicate entry, and goes on with
\* the distinct regions of the records in code-unit order.
RegionsContract ==
    page = "ready" =>
        /\ Len(regions) >= 1 /\ regions[1] = All
        /\ \A i, j \in 1..Len(regions) : i # j => regions[i] # regions[j]
        /\ Elements(Tail(regions)) = {countries[i].region : i \in 1..Len(countries)}
        /\ \A i \in 2..(Len(regions) - 1) : CodeUnitCompare(regions[i], regions[i + 1]) < 0

\* C8: no two records of the list getCountries returns share a cca3.
Cca3Unique ==
    page \in {"returned", "ready"} =>
        \A i, j \in 1..Len(countries) :
            i # j => countries[i].cca3 # countries[j].cca3

\* C9: no dashboard action changes the record list it was given.
SourceListUnchanged == [][page = "ready" => countries' = countries]_vars

\* C9 witness: the visible list holds all the records in another order than
\* the source list.
VisibleReordersSource ==
    /\ page = "ready"
    /\ Len(countries) >= 2 /\ Len(filteredCountries) = Len(countries)
    /\ filteredCountries # countries
    /\ selectedCountry # Null /\ searchTerm # <<>>

\* the direction after handleSort(key) twice in a row
DirectionAfterTwo(key) ==
    LET once  == toggleSort(key, sortKey, sortDirection)
        twice == toggleSort(key, once.sortKey, once.sortDirection)
    IN  twice.sortDirection

\* C10 as stated: for every sort key, two header clicks in a row on that key
\* leave sortDirection as it was before them.
TwoClicksRestoreDirection ==
    page = "ready" => \A key \in SortKeys : DirectionAfterTwo(key) = sortDirection

\* C10 amended: two header clicks in a row on the current sort key leave
\* sortDirection as it was before them.
TwoClicksOnCurrentKeyRestoreDirection ==
    page = "ready" => DirectionAfterTwo(sortKey) = sortDirection

\* C10 witness: currencies ascending, which only two header clicks in a row
\* on currencies produce.
CurrenciesAscendingReached ==
    page = "ready" /\ sortKey = "currencies" /\ sortDirection = "asc"

\* the names written one after the other with ", " between them
RECURSIVE CommaSeparated(_)
CommaSeparated(names) ==
    IF Len(names) = 1 THEN names[1]
    ELSE CommaSeparated(Front(names)) \o << ",", " " >> \o Last(names)

\* the currencies text the claim gives an entry's currencies
ExpectedCurrencies(currencies) ==
    IF currencies.has /\ Len(currencies.items) >= 1
    THEN CommaSeparated(currencies.items)
    ELSE EmDash

\* the record getCountries returned for a kept metadata entry
IsRecordOf(record, entry) ==
    /\ record.name = entry.name
    /\ record.cca2 = entry.cca2
    /\ record.cca3 = entry.cca3
    /\ record.population = entry.population

\* C11: for every metadata entry getCountries keeps, the record's currencies
\* is the currency names joined with ", " when at least one is listed, and the
\* placeholder (em dash) when the entry's currencies are empty or absent.
CurrenciesLabelContract ==
    page = "returned" =>
        \A i \in 1..Len(restResponse.body) :
            HasBothCodes(restResponse.body[i]) =>
                \E j \in 1..Len(countries) :
                    /\ IsRecordOf(countries[j], restResponse.body[i])
                    /\ countries[j].currencies
                          = ExpectedCurrencies(restResponse.body[i].currencies)

====
